---- MODULE Spec2Model ----
(***************************************************************************)
(* findbadseqs.py: audit of the sequences behind the auto-increment        *)
(* primary keys of a Django/PostgreSQL database, and the repair SQL it     *)
(* prints.                                                                 *)
(*                                                                         *)
(* Two specifications:                                                     *)
(*   Spec        the driver (__main__ and check_pk_field): one check per   *)
(*               enumerated primary-key column, then the final print;      *)
(*   SpecRepair  one column: suggest_sequence_repair_sql, the suggested    *)
(*               statements run by psql as one BEGIN/COMMIT block, and      *)
(*               suggest_sequence_repair_sql again on the resulting        *)
(*               catalog.                                                  *)
(*                                                                         *)
(* Statements, default expressions and output lines are the strings the    *)
(* program builds.  A Sequence object is represented by its name: the      *)
(* class compares by name only (__eq__) and its cursor is the one shared   *)
(* cursor.  Table names containing 'taggit_tag' (the debugger hook of      *)
(* lines 126-127) are outside the modelled inputs.                         *)
(***************************************************************************)
EXTENDS Integers, Sequences, FiniteSets, TLC

(* Bounds of the model. *)
MaxCols == 2    \* primary-key columns in one enumeration
MaxAlt == 1     \* sequences per table with a non-conventional name

VARIABLES
    ncols,      \* number of (model, AutoField) pairs the loop of line 148 visits
    i,          \* 1-based position of the column under check
    pc,         \* position in __main__ / check_pk_field, or in the repair cycle
    cat,        \* catalog facts of the column under check
    local,      \* check_pk_field's local `output`
    output,     \* __main__'s `output`
    stdout,     \* lines written to standard output
    managed,    \* TRUE between enter_transaction_management() and rollback()
    checked,    \* indices of the columns whose check has started
    failed,     \* indices of the columns whose check raised
    suggested,  \* per checked column, what suggest_sequence_repair_sql returned
    first,      \* SpecRepair: outcome of the first call
    second      \* SpecRepair: outcome of the call after the repair was applied

vars == <<ncols, i, pc, cat, local, output, stdout, managed, checked, failed,
          suggested, first, second>>

None == "None"

(* ---------------------------------------------------------------------- *)
(* Names                                                                  *)
(* ---------------------------------------------------------------------- *)

TableNames == <<"orders", "users", "items", "carts">>

\* model._meta.db_table of the k-th enumerated model
db_table(k) == TableNames[((k - 1) % Len(TableNames)) + 1]

\* field.column of its AutoField
pk_column(k) == "id"

sequence_expected_by_django(table, column) == table \o "_" \o column \o "_seq"

\* The sequence names the catalog of one column may hold: the conventional
\* one and MaxAlt others.
SeqNames(table, column) ==
    {sequence_expected_by_django(table, column)} \cup
    {sequence_expected_by_django(table, column) \o ToString(j) : j \in 1..MaxAlt}

(* ---------------------------------------------------------------------- *)
(* Catalog facts of one column                                            *)
(* ---------------------------------------------------------------------- *)

\* adsrc of a default that calls nextval on a sequence, schema prefix "" or
\* "public."
NextvalSrc(prefix, name) == "nextval('" \o prefix \o name \o "'::regclass)"

\* adsrc that contains nextval (so the ILIKE filter of line 57 keeps the row)
\* but does not start with the call
OffsetSrc(name) == "(nextval('" \o name \o "'::regclass) + 1)"

AdSrcs(table, column) ==
    {NextvalSrc(p, n) : p \in {"", "public."}, n \in SeqNames(table, column)}
    \cup {OffsetSrc(sequence_expected_by_django(table, column))}

\* seqs:   names with relkind = 'S' in pg_class
\* rows:   adsrc of the rows the query of line 57 returns
\* serial: pg_get_serial_sequence(table, column), None for NULL
\* dberr:  the catalog queries for this column raise DatabaseError
\* pg_get_serial_sequence names a sequence that exists
WellFormed(c) ==
    c.serial # None => \E n \in c.seqs : c.serial = "public." \o n

Catalogs(table, column) ==
    LET names == SeqNames(table, column)
        one == NextvalSrc("", sequence_expected_by_django(table, column))
        rowss == {<<>>, <<one, one>>} \cup {<<s>> : s \in AdSrcs(table, column)}
        all == [seqs : SUBSET names, rows : rowss,
                serial : {None} \cup {"public." \o n : n \in names},
                dberr : {FALSE}]
    IN  {[seqs |-> {}, rows |-> <<>>, serial |-> None, dberr |-> TRUE]}
        \cup {c \in all : WellFormed(c)}

NoCatalog == [seqs |-> {}, rows |-> <<>>, serial |-> None, dberr |-> FALSE]

(* ---------------------------------------------------------------------- *)
(* Sequence                                                               *)
(* ---------------------------------------------------------------------- *)

\* Faulty variant: identity instead of name equality; two Sequence objects built by
\* separate calls are never the same object
Sequence_is(a, b) == FALSE

\* Sequence.__eq__
Sequence_eq(a, b) == a = b

\* Faulty variant: bool(self.cursor.fetchone), the bound method instead of the row
exists_unfetched(name, c) == TRUE

\* Sequence.exists
exists(name, c) == name \in c.seqs

(* ---------------------------------------------------------------------- *)
(* ColumnInformation                                                      *)
(* ---------------------------------------------------------------------- *)

Return(v) == [raised |-> "", value |-> v]
Raise(e) == [raised |-> e, value |-> None]

\* Faulty variant: the `if name` test dropped, a Sequence is returned for NULL too
sequence_according_to_postgres_unchecked(c) ==
    IF c.serial # None THEN c.serial ELSE "public."

sequence_according_to_postgres(c) ==
    IF c.serial # None THEN c.serial ELSE None

\* re.match("nextval\(+'(?:public.)?([^']+)'", adsrc): group 1, or None when
\* the expression does not start with the call
seq_name_match(adsrc, table, column) ==
    LET hits == {n \in SeqNames(table, column) :
                    \E p \in {"", "public."} : adsrc = NextvalSrc(p, n)}
    IN  IF hits = {} THEN None ELSE CHOOSE n \in hits : TRUE

sequence_currently_used(c, table, column) ==
    IF c.dberr THEN Raise("DatabaseError")
    ELSE IF Len(c.rows) # 1 THEN Return(None)
    ELSE IF seq_name_match(c.rows[1], table, column) = None
         THEN Raise("ValueError")
    ELSE Return(seq_name_match(c.rows[1], table, column))

get_sequence_permission_fixing_sql(table, column, sequence) ==
    "ALTER SEQUENCE " \o sequence \o " OWNED BY " \o table \o "." \o column \o ";"

RenameSql(from, to) == "ALTER SEQUENCE " \o from \o " RENAME TO " \o to \o ";"

SetDefaultSql(table, column, name) ==
    "ALTER TABLE " \o table \o " ALTER COLUMN " \o column
        \o " SET DEFAULT nextval('" \o name \o "');"

SetvalSql(table, column, name) ==
    "SELECT setval('" \o name \o "', coalesce(max(\"" \o column
        \o "\"), 1), max(\"" \o column \o "\") IS NOT null) FROM " \o table \o ";"

\* Faulty variant: the two appends in the other order
rename_repair_swapped(table, column, cur_seq, dj_seq) ==
    <<SetDefaultSql(table, column, dj_seq), RenameSql(cur_seq, dj_seq)>>

\* lines 106-107
rename_repair(table, column, cur_seq, dj_seq) ==
    <<RenameSql(cur_seq, dj_seq), SetDefaultSql(table, column, dj_seq)>>

\* Faulty variant: the two appends in the other order
repoint_repair_swapped(table, column, dj_seq) ==
    <<SetvalSql(table, column, dj_seq), SetDefaultSql(table, column, dj_seq)>>

\* lines 110-111
repoint_repair(table, column, dj_seq) ==
    <<SetDefaultSql(table, column, dj_seq), SetvalSql(table, column, dj_seq)>>

suggest_sequence_repair_sql(c, table, column) ==
    LET dj_seq == sequence_expected_by_django(table, column)
        used == sequence_currently_used(c, table, column)
        cur_seq == used.value
        structural ==
            IF Sequence_eq(dj_seq, cur_seq) THEN <<>>
            ELSE IF ~exists(dj_seq, c)
                 THEN rename_repair(table, column, cur_seq, dj_seq)
                 ELSE repoint_repair(table, column, dj_seq)
        pg_seq == sequence_according_to_postgres(c)
        ownership ==
            IF pg_seq = None
            THEN <<get_sequence_permission_fixing_sql(
                        table, column,
                        sequence_currently_used(c, table, column).value)>>
            ELSE <<>>
    IN  IF used.raised # "" THEN Raise(used.raised)
        ELSE IF cur_seq = None THEN Return(<<>>)
        ELSE IF ~exists(dj_seq, c) /\ ~exists(cur_seq, c) THEN Return(<<>>)
        ELSE Return(structural \o ownership)

(* ---------------------------------------------------------------------- *)
(* The engine's effect of the suggested statements on the catalog facts   *)
(* of the column, as psql runs one BEGIN; ... COMMIT; block               *)
(* ---------------------------------------------------------------------- *)

Done(c) == [ok |-> TRUE, cat |-> c]
Failed(c) == [ok |-> FALSE, cat |-> c]

\* ALTER SEQUENCE from RENAME TO to: the sequence keeps its ownership
ExecRename(c, from, to) ==
    IF from \in c.seqs /\ to \notin c.seqs
    THEN Done([c EXCEPT !.seqs = (c.seqs \ {from}) \cup {to},
                        !.serial = IF c.serial = "public." \o from
                                   THEN "public." \o to ELSE c.serial])
    ELSE Failed(c)

\* ALTER TABLE ... SET DEFAULT nextval('name'): the name is resolved when the
\* statement runs
ExecSetDefault(c, name) ==
    IF name \in c.seqs
    THEN Done([c EXCEPT !.rows = <<NextvalSrc("", name)>>])
    ELSE Failed(c)

\* SELECT setval('name', ...): changes the sequence's value only
ExecSetval(c, name) == IF name \in c.seqs THEN Done(c) ELSE Failed(c)

\* ALTER SEQUENCE name OWNED BY table.column
ExecOwnedBy(c, name) ==
    IF name \in c.seqs
    THEN Done([c EXCEPT !.serial = "public." \o name])
    ELSE Failed(c)

\* One statement, recognised by its text
ExecSql(c, sql, table, column) ==
    LET names == SeqNames(table, column)
    IN  IF \E a, b \in names : sql = RenameSql(a, b)
        THEN LET ab == CHOOSE ab \in names \X names : sql = RenameSql(ab[1], ab[2])
             IN  ExecRename(c, ab[1], ab[2])
        ELSE IF \E n \in names : sql = SetDefaultSql(table, column, n)
        THEN ExecSetDefault(c, CHOOSE n \in names : sql = SetDefaultSql(table, column, n))
        ELSE IF \E n \in names : sql = SetvalSql(table, column, n)
        THEN ExecSetval(c, CHOOSE n \in names : sql = SetvalSql(table, column, n))
        ELSE IF \E n \in names : sql = get_sequence_permission_fixing_sql(table, column, n)
        THEN ExecOwnedBy(c, CHOOSE n \in names :
                                sql = get_sequence_permission_fixing_sql(table, column, n))
        ELSE Failed(c)

\* The statements in order; the first error aborts the transaction
RECURSIVE ExecAll(_, _, _, _)
ExecAll(c, stmts, table, column) ==
    IF stmts = <<>> THEN Done(c)
    ELSE LET r == ExecSql(c, Head(stmts), table, column)
         IN  IF r.ok THEN ExecAll(r.cat, Tail(stmts), table, column)
             ELSE Failed(c)

\* BEGIN; stmts; COMMIT;  (COMMIT of an aborted transaction rolls back)
psql_transaction(c, stmts, table, column) ==
    LET r == ExecAll(c, stmts, table, column)
    IN  IF r.ok THEN r ELSE Failed(c)

(* ---------------------------------------------------------------------- *)
(* check_pk_field and __main__                                            *)
(* ---------------------------------------------------------------------- *)

SettingsModule == "project.settings"
DatabaseName == "project"
DatabaseErrorText == "permission denied for relation pg_attrdef"

\* line 135
DbErrorLine == SettingsModule \o " \tdb error:\t " \o DatabaseErrorText

\* line 155
ConnectLine == "\\c " \o DatabaseName

\* line 132
Block(stmts) == <<"BEGIN;">> \o stmts \o <<"COMMIT;">>

Init ==
    /\ ncols \in 1..MaxCols
    /\ i = 1
    /\ pc = "loop"
    /\ cat = NoCatalog
    /\ local = <<>>
    /\ output = <<>>
    /\ stdout = <<>>
    /\ managed = FALSE
    /\ checked = {}
    /\ failed = {}
    /\ suggested = <<>>
    /\ first = Return(<<>>)
    /\ second = Return(<<>>)

\* lines 148-152 (next AutoField), 122-124
EnterCheck ==
    /\ pc = "loop"
    /\ i <= ncols
    /\ \E c \in Catalogs(db_table(i), pk_column(i)) : cat' = c
    /\ local' = <<>>
    /\ managed' = TRUE
    /\ checked' = checked \cup {i}
    /\ pc' = "try"
    /\ UNCHANGED <<ncols, i, output, stdout, failed, suggested, first, second>>

\* lines 129-132
TryReturns ==
    /\ pc = "try"
    /\ LET r == suggest_sequence_repair_sql(cat, db_table(i), pk_column(i))
       IN  /\ r.raised = ""
           /\ local' = IF r.value # <<>> THEN Block(r.value) ELSE local
           /\ suggested' = Append(suggested, r.value)
    /\ pc' = "rollback"
    /\ UNCHANGED <<ncols, i, cat, output, stdout, managed, checked, failed,
                   first, second>>

\* lines 134-136
TryDatabaseError ==
    /\ pc = "try"
    /\ suggest_sequence_repair_sql(cat, db_table(i), pk_column(i)).raised
            = "DatabaseError"
    /\ stdout' = Append(stdout, DbErrorLine)
    /\ failed' = failed \cup {i}
    /\ suggested' = Append(suggested, <<>>)
    /\ pc' = "rollback"
    /\ UNCHANGED <<ncols, i, cat, local, output, managed, checked, first, second>>

\* line 75 raised through lines 116/85, 130, 152: no handler, the process
\* ends with a traceback
TryValueError ==
    /\ pc = "try"
    /\ suggest_sequence_repair_sql(cat, db_table(i), pk_column(i)).raised
            = "ValueError"
    /\ failed' = failed \cup {i}
    /\ suggested' = Append(suggested, <<>>)
    /\ pc' = "traceback"
    /\ UNCHANGED <<ncols, i, cat, local, output, stdout, managed, checked,
                   first, second>>

\* lines 138-140, 152
Rollback ==
    /\ pc = "rollback"
    /\ managed' = FALSE
    /\ output' = output \o local
    /\ i' = i + 1
    /\ cat' = NoCatalog
    /\ pc' = "loop"
    /\ UNCHANGED <<ncols, local, stdout, checked, failed, suggested, first, second>>

\* lines 154-156
PrintOutput ==
    /\ pc = "loop"
    /\ i > ncols
    /\ stdout' = IF output # <<>> THEN stdout \o <<ConnectLine>> \o output
                 ELSE stdout
    /\ pc' = "exit"
    /\ UNCHANGED <<ncols, i, cat, local, output, managed, checked, failed,
                   suggested, first, second>>

Next ==
    \/ EnterCheck
    \/ TryReturns
    \/ TryDatabaseError
    \/ TryValueError
    \/ Rollback
    \/ PrintOutput

Spec == Init /\ [][Next]_vars

(* ---------------------------------------------------------------------- *)
(* One column: suggest, apply the suggestion, suggest again               *)
(* ---------------------------------------------------------------------- *)

InitRepair ==
    /\ ncols = 1
    /\ i \in 1..MaxCols
    /\ pc = "call"
    /\ cat \in Catalogs(db_table(i), pk_column(i))
    /\ local = <<>>
    /\ output = <<>>
    /\ stdout = <<>>
    /\ managed = FALSE
    /\ checked = {}
    /\ failed = {}
    /\ suggested = <<>>
    /\ first = Return(<<>>)
    /\ second = Return(<<>>)

\* line 130
FirstCall ==
    /\ pc = "call"
    /\ first' = suggest_sequence_repair_sql(cat, db_table(i), pk_column(i))
    /\ pc' = "apply"
    /\ UNCHANGED <<ncols, i, cat, local, output, stdout, managed, checked,
                   failed, suggested, second>>

\* the operator feeds the block of line 132 to psql
ApplyRepair ==
    /\ pc = "apply"
    /\ first.raised = ""
    /\ cat' = psql_transaction(cat, first.value, db_table(i), pk_column(i)).cat
    /\ pc' = "recall"
    /\ UNCHANGED <<ncols, i, local, output, stdout, managed, checked, failed,
                   suggested, first, second>>

\* line 130, next run
SecondCall ==
    /\ pc = "recall"
    /\ second' = suggest_sequence_repair_sql(cat, db_table(i), pk_column(i))
    /\ pc' = "end"
    /\ UNCHANGED <<ncols, i, cat, local, output, stdout, managed, checked,
                   failed, suggested, first>>

NextRepair ==
    \/ FirstCall
    \/ ApplyRepair
    \/ SecondCall

SpecRepair == InitRepair /\ [][NextRepair]_vars

(* ---------------------------------------------------------------------- *)
(* Properties of suggest_sequence_repair_sql (checked under SpecRepair)   *)
(* ---------------------------------------------------------------------- *)

Table == db_table(i)
Column == pk_column(i)
Expected == sequence_expected_by_django(Table, Column)
Names == SeqNames(Table, Column)

\* The first call has been made and the catalog is still the one it read
Called == pc = "apply"

\* The column's default is a single nextval call on sequence n
Referenced(n) ==
    /\ ~cat.dberr
    /\ cat.rows \in {<<NextvalSrc("", n)>>, <<NextvalSrc("public.", n)>>}

NoDeclared == cat.serial = None

\* The ownership statement for sequence n when the engine reports no declared
\* sequence, nothing otherwise
OwnershipTail(n) ==
    IF NoDeclared
    THEN <<"ALTER SEQUENCE " \o n \o " OWNED BY " \o Table \o "." \o Column \o ";">>
    ELSE <<>>

RenameCase(cur) == Referenced(cur) /\ cur \in cat.seqs /\ Expected \notin cat.seqs

RepointCase(cur) ==
    Referenced(cur) /\ cur # Expected /\ cur \in cat.seqs /\ Expected \in cat.seqs

SameCase == Referenced(Expected) /\ Expected \in cat.seqs

NeitherCase(cur) == Referenced(cur) /\ cur \notin cat.seqs /\ Expected \notin cat.seqs

\* C1 (as stated): after the statements of the first call have been applied as
\* one transaction, the second call returns an empty list.
C1_Idempotent == pc = "end" => second = Return(<<>>)

\* C2 (as stated): current exists, expected does not: the result is exactly
\* [RENAME current TO expected, SET DEFAULT nextval(expected)].
C2_RenameExactlyTwo ==
    Called =>
        \A cur \in Names :
            RenameCase(cur) =>
                first = Return(<<RenameSql(cur, Expected),
                                 SetDefaultSql(Table, Column, Expected)>>)

\* C2 (amended): current exists, expected does not: the result is RENAME then
\* SET DEFAULT, followed by the ownership statement for current exactly when
\* the engine reports no declared sequence.  For orders.id with default
\* orders_id_seq1 and a declared sequence it is the two statements of the
\* spec's scenario.
C2_RenameThenOwnership ==
    Called =>
        \A cur \in Names :
            RenameCase(cur) =>
                /\ first = Return(<<RenameSql(cur, Expected),
                                    SetDefaultSql(Table, Column, Expected)>>
                                  \o OwnershipTail(cur))
                /\ (Table = "orders" /\ cur = "orders_id_seq1" /\ ~NoDeclared) =>
                     first.value =
                       <<"ALTER SEQUENCE orders_id_seq1 RENAME TO orders_id_seq;",
                         "ALTER TABLE orders ALTER COLUMN id SET DEFAULT nextval('orders_id_seq');">>

C2_Witness ==
    /\ Called
    /\ Table = "orders"
    /\ RenameCase("orders_id_seq1")
    /\ ~NoDeclared
    /\ Len(first.value) = 2

\* C3 (as stated): expected and current both exist under different names: the
\* result is exactly [SET DEFAULT nextval(expected), setval resync].
C3_RepointExactlyTwo ==
    Called =>
        \A cur \in Names :
            RepointCase(cur) =>
                first = Return(<<SetDefaultSql(Table, Column, Expected),
                                 SetvalSql(Table, Column, Expected)>>)

\* C3 (amended): expected and current both exist under different names: the
\* result is SET DEFAULT then the setval resync of expected to
\* coalesce(max(column), 1) with the flag max(column) IS NOT null, followed by
\* the ownership statement for current exactly when the engine reports no
\* declared sequence.
C3_RepointThenOwnership ==
    Called =>
        \A cur \in Names :
            RepointCase(cur) =>
                /\ first = Return(<<SetDefaultSql(Table, Column, Expected),
                                    SetvalSql(Table, Column, Expected)>>
                                  \o OwnershipTail(cur))
                /\ Table = "orders" =>
                     SubSeq(first.value, 1, 2) =
                       <<"ALTER TABLE orders ALTER COLUMN id SET DEFAULT nextval('orders_id_seq');",
                         "SELECT setval('orders_id_seq', coalesce(max(\"id\"), 1), max(\"id\") IS NOT null) FROM orders;">>

C3_Witness ==
    /\ Called
    /\ Table = "orders"
    /\ RepointCase("orders_id_seq1")
    /\ Len(first.value) = 2

\* C4 (as stated): expected and current have the same name and the sequence
\* exists: the result is empty.
C4_SameNameEmpty == (Called /\ SameCase) => first = Return(<<>>)

\* C4 (amended): expected and current have the same name and the sequence
\* exists: the result is empty when the engine reports a declared sequence,
\* and exactly the ownership statement for that sequence when it reports none.
C4_SameNameOnlyOwnership ==
    (Called /\ SameCase) => first = Return(OwnershipTail(Expected))

C4_Witness == Called /\ SameCase /\ ~NoDeclared /\ first = Return(<<>>)

\* C5 (as stated): the engine reports no declared sequence: the result ends
\* with the ownership statement for the current sequence, whichever branch was
\* taken.
C5_OwnershipAlways ==
    (Called /\ first.raised = "" /\ NoDeclared) =>
        /\ first.value # <<>>
        /\ \E cur \in Names :
              first.value[Len(first.value)] =
                "ALTER SEQUENCE " \o cur \o " OWNED BY " \o Table \o "." \o Column \o ";"

\* C5 (amended): the engine reports no declared sequence: when the current
\* sequence is determined and at least one of expected and current exists
\* (names equal, rename, re-point), the result ends with the ownership
\* statement for current; when the current sequence is not determined or
\* neither exists, the result is empty.
C5_OwnershipUnlessAborted ==
    (Called /\ first.raised = "" /\ NoDeclared) =>
        /\ \A cur \in Names :
              (Referenced(cur) /\ ~NeitherCase(cur)) =>
                  /\ first.value # <<>>
                  /\ first.value[Len(first.value)] =
                       "ALTER SEQUENCE " \o cur \o " OWNED BY " \o Table \o "."
                            \o Column \o ";"
        /\ ((\A cur \in Names : ~Referenced(cur)) \/ (\E cur \in Names : NeitherCase(cur)))
              => first.value = <<>>

C5_Witness ==
    /\ Called
    /\ NoDeclared
    /\ \E cur \in Names : RepointCase(cur) /\ Len(first.value) = 3

\* C6: neither the expected nor the current sequence exists, names equal or
\* not, whatever the engine reports: the result is empty.
C6_NeitherExistsEmpty ==
    Called => \A cur \in Names : NeitherCase(cur) => first = Return(<<>>)

C6_Witness ==
    /\ Called
    /\ NeitherCase(Expected)
    /\ ~NoDeclared
    /\ first = Return(<<>>)

\* C10 (as stated): the statements of every returned list run in order
\* against the catalog the list was computed from: each names only sequences
\* that exist once the statements before it have run.
C10_Executable ==
    (Called /\ first.raised = "") =>
        ExecAll(cat, first.value, Table, Column).ok

(* ---------------------------------------------------------------------- *)
(* Properties of the driver (checked under Spec)                          *)
(* ---------------------------------------------------------------------- *)

Terminated == pc \in {"exit", "traceback"}

\* The BEGIN/COMMIT blocks of the non-empty lists, in order
RECURSIVE Blocks(_)
Blocks(lists) ==
    IF lists = <<>> THEN <<>>
    ELSE (IF Head(lists) # <<>> THEN Block(Head(lists)) ELSE <<>>)
            \o Blocks(Tail(lists))

IsSql(line) == line # DbErrorLine /\ line # ConnectLine

\* C7 (as stated): a failed column contributes nothing, every later column is
\* still checked, and the statements emitted are those of the other columns.
C7_FailureIsolation ==
    Terminated =>
        /\ checked = 1..ncols
        /\ SelectSeq(stdout, IsSql) = Blocks(suggested)

\* C8 (as stated): standard output is empty when every list is empty, and
\* otherwise the connection line followed by one block per non-empty list;
\* no other line appears.
C8_StdoutIsScript ==
    pc = "exit" =>
        stdout = IF Blocks(suggested) = <<>> THEN <<>>
                 ELSE <<ConnectLine>> \o Blocks(suggested)

\* C9 (as stated): the transaction entered by a check is rolled back before
\* the next check begins and before the process ends.
C9_RolledBack == pc \in {"loop", "exit", "traceback"} => ~managed

====
